---- MODULE Spec2Model ----
(***************************************************************************)
(* Model of lxc/init.go: cmdInit.create, cmdInit.guessImage and            *)
(* cmdInit.checkNetwork.  One invocation of create is a run of the state   *)
(* machine; every remote call is a step whose outcome the environment      *)
(* chooses.  Strings that the code inspects character by character         *)
(* (arguments, image tokens, key=value entries, resource paths) are        *)
(* sequences of one-character strings; names that are only compared are    *)
(* plain strings.                                                          *)
(***************************************************************************)
EXTENDS Integers, Sequences, FiniteSets, TLC

VARIABLES pc, args, flags, stdin, stdinData, calls, failed, err,
          name, image, remote, iremote, devicesMap, configMap, profiles,
          req, imgInfo, guessCall, op, opInfo, signals, cancels,
          waitStarted, retName, advisory, seen

vars == <<pc, args, flags, stdin, stdinData, calls, failed, err,
          name, image, remote, iremote, devicesMap, configMap, profiles,
          req, imgInfo, guessCall, op, opInfo, signals, cancels,
          waitStarted, retName, advisory, seen>>

(* ---------------------------- bounds ----------------------------------- *)
MaxLen == 3
MaxEvents == 2
MaxSignals == 2

(* ---------------------------- strings ---------------------------------- *)
Default == <<"d", "e", "f", "a", "u", "l", "t">>

Contains(s, c) == \E i \in 1..Len(s) : s[i] = c

IndexOf(s, c) == CHOOSE i \in 1..Len(s) : s[i] = c /\ \A j \in 1..(i-1) : s[j] # c

\* strings.SplitN(s, c, 2)
SplitN2(s, c) ==
    IF Contains(s, c)
    THEN <<SubSeq(s, 1, IndexOf(s, c) - 1), SubSeq(s, IndexOf(s, c) + 1, Len(s))>>
    ELSE <<s>>

\* strings.Split(s, c)
RECURSIVE Split(_, _)
Split(s, c) ==
    IF Contains(s, c)
    THEN <<SubSeq(s, 1, IndexOf(s, c) - 1)>> \o Split(SubSeq(s, IndexOf(s, c) + 1, Len(s)), c)
    ELSE <<s>>

RECURSIVE StringsUpTo(_, _)
StringsUpTo(A, n) ==
    IF n = 0 THEN {<<>>}
    ELSE LET S == StringsUpTo(A, n - 1)
         IN  S \cup {Append(s, c) : s \in {t \in S : Len(t) = n - 1}, c \in A}

MapSet(m, k, v) == [x \in DOMAIN m \cup {k} |-> IF x = k THEN v ELSE m[x]]

(* ------------------------- configuration ------------------------------- *)
\* conf.Remotes: remote name -> protocol
Remotes == (<<"l">> :> "lxd") @@ (<<"r">> :> "lxd") @@ (<<"s">> :> "simplestreams")

DefaultRemote == <<"l">>

\* conf.ParseRemote(raw)
ParseRemote(raw) ==
    LET result == SplitN2(raw, ":")
    IN  IF Len(result) = 1
        THEN [err |-> FALSE, remote |-> DefaultRemote, name |-> raw]
        ELSE IF result[1] \notin DOMAIN Remotes
        THEN [err |-> TRUE, remote |-> <<>>, name |-> <<>>]
        ELSE [err |-> FALSE, remote |-> result[1], name |-> result[2]]

(* ------------------------------ inputs --------------------------------- *)
Alphabet == {"l", "s", "x", "/", ":"}

ImageTokens == StringsUpTo(Alphabet, MaxLen)

ImageArgs == { <<>>, <<"x">>, <<"l", "/", "x">>, <<"s", "/", "x">>,
               <<"r", ":", "x">>, <<"z", ":", "x">> }

NameArgs == { <<"c">> }

ArgLists == {<<>>} \cup {<<a>> : a \in ImageArgs}
                   \cup {<<a, n>> : a \in ImageArgs, n \in NameArgs}

ConfigFlagLists == { <<>>, << <<"k", "=", "v">> >>, << <<"b", "a", "d">> >> }

FlagSets == [ empty : BOOLEAN, network : {"", "n"}, storage : {"", "p"},
              config : ConfigFlagLists, profile : {<<>>},
              noProfiles : {FALSE}, type : {""}, target : {""},
              ephemeral : {FALSE} ]

NoStdin == [ config |-> <<>>, devices |-> <<>>, profiles |-> <<>> ]

PipedStdin == [ config   |-> (<<"k">> :> <<"s">>),
                devices  |-> ("root" :> (("type" :> "disk") @@ ("path" :> "/") @@ ("pool" :> "q")))
                             @@ ("n" :> (("type" :> "nic") @@ ("nictype" :> "p2p")))
                             @@ ("eth1" :> (("type" :> "nic") @@ ("nictype" :> "physical")
                                            @@ ("parent" :> "e"))),
                profiles |-> <<"sp">> ]

\* A piped document with a config section only.
SparseStdin == [ config |-> (<<"j">> :> <<"t">>), devices |-> <<>>, profiles |-> <<>> ]

StdinKinds == {"terminal", "piped", "malformed"}

\* The document yaml.Unmarshal leaves in stdinData.
StdinDoc(kind) ==
    IF kind = "piped" THEN PipedStdin
    ELSE IF kind = "sparse" THEN SparseStdin
    ELSE NoStdin

\* Inputs of the request building: every flag that shapes the request.
RequestImageArgs == { <<>>, <<"x">>, <<"s", ":", "x">>, <<"s", ":">>, <<"r", ":">>,
                      <<"r", ":", "x">>, <<"s", "/", "x">> }

RequestArgLists == {<<>>} \cup {<<a>> : a \in RequestImageArgs}
                          \cup { << <<"x">>, <<"c">> >>, << <<"x">>, <<"r", ":", "c">> >> }

RequestFlagSets == [ empty : BOOLEAN, network : {"", "n", "root"}, storage : {"", "p"},
                     config : { <<>>, << <<"k", "=", "v">> >> },
                     profile : { <<>>, <<"p1", "p2">> },
                     noProfiles : BOOLEAN, type : {""}, target : {""},
                     ephemeral : {FALSE} ]

RequestStdinKinds == {"terminal", "piped", "sparse"}

(* ------------------------------ values --------------------------------- *)
Call(fn, by, arg) == [fn |-> fn, by |-> by, arg |-> arg]

Called(fn) == \E i \in 1..Len(calls) : calls[i].fn = fn

NoReq == [ name |-> <<>>, type |-> "", config |-> <<>>, devices |-> <<>>,
           profilesNil |-> TRUE, profiles |-> <<>>, ephemeral |-> FALSE,
           sourceType |-> "", sourceAlias |-> <<>> ]

NoImgInfo == [ fingerprint |-> <<>>, public |-> FALSE ]

NoGuess == [ called |-> FALSE, remote |-> <<>>, iremote |-> <<>>, image |-> <<>>,
             aliasOK |-> FALSE, imageOK |-> FALSE,
             outRemote |-> <<>>, outImage |-> <<>>, probes |-> <<>> ]

NoOp == [ state |-> "none", handler |-> FALSE, emitted |-> 0, delivered |-> 0, attachedAt |-> 0 ]

NoOpInfo == [ state |-> "none", containers |-> <<>>, hasContainers |-> FALSE ]

Terminal == {"success", "failure", "cancelled"}

\* What the server answered: the type of the network of d.GetNetwork, the
\* target of the alias of GetImageAlias and the instance of d.GetInstance
\* (fetched or not, with its expanded devices).
NoSeen == [ netType |-> "", aliasTarget |-> <<>>, fetched |-> FALSE, devices |-> <<>> ]

(* ------------------------------- Init ---------------------------------- *)
Blank ==
    /\ calls = <<>> /\ failed = {} /\ err = ""
    /\ name = <<>>
    /\ stdinData = NoStdin
    /\ devicesMap = <<>> /\ configMap = <<>> /\ profiles = <<>>
    /\ req = NoReq /\ imgInfo = NoImgInfo /\ guessCall = NoGuess
    /\ op = NoOp /\ opInfo = NoOpInfo
    /\ signals = [pending |-> 0, received |-> 0] /\ cancels = 0 /\ waitStarted = FALSE
    /\ retName = <<>> /\ advisory = FALSE /\ seen = NoSeen

Init ==
    /\ pc = "run"
    /\ args \in ArgLists
    /\ flags \in FlagSets
    /\ stdin \in StdinKinds
    /\ image = <<>> /\ remote = <<>> /\ iremote = <<>>
    /\ Blank

\* guessImage on its own: any configured remotes and any image token.
InitGuess ==
    /\ pc = "guess"
    /\ args = <<>>
    /\ flags \in [ empty : {FALSE}, network : {""}, storage : {""}, config : {<<>>},
                   profile : {<<>>}, noProfiles : {FALSE}, type : {""},
                   target : {""}, ephemeral : {FALSE} ]
    /\ stdin = "terminal"
    /\ remote \in DOMAIN Remotes
    /\ iremote \in DOMAIN Remotes
    /\ image \in ImageTokens
    /\ Blank

\* Invocations that differ in everything the request is built from.
InitRequest ==
    /\ pc = "run"
    /\ args \in RequestArgLists
    /\ flags \in RequestFlagSets
    /\ stdin \in RequestStdinKinds
    /\ image = <<>> /\ remote = <<>> /\ iremote = <<>>
    /\ Blank

\* One plain invocation in image mode or in empty mode.
InitTrack ==
    /\ pc = "run"
    /\ args = << <<"x">> >>
    /\ flags \in [ empty : BOOLEAN, network : {""}, storage : {""}, config : {<<>>},
                   profile : {<<>>}, noProfiles : {FALSE}, type : {""},
                   target : {""}, ephemeral : {FALSE} ]
    /\ stdin = "terminal"
    /\ image = <<>> /\ remote = <<>> /\ iremote = <<>>
    /\ Blank

Return(e) == pc' = "done" /\ err' = e

DoCall(fn, by, arg, ok) ==
    /\ calls' = Append(calls, Call(fn, by, arg))
    /\ failed' = IF ok THEN failed ELSE failed \cup {Call(fn, by, arg)}

(* --------------------------- cmdInit.Run -------------------------------- *)
\* Run: with no argument and no --empty only the usage is printed.
Run ==
    /\ pc = "run"
    /\ pc' = IF Len(args) = 0 /\ ~flags.empty THEN "usage" ELSE "create"
    /\ UNCHANGED <<args, flags, stdin, stdinData, calls, failed, err, name, image,
                   remote, iremote, devicesMap, configMap, profiles, req, imgInfo,
                   guessCall, op, opInfo, signals, cancels, waitStarted, retName,
                   advisory, seen>>

(* ----------------------- create, lines 86-135 --------------------------- *)
\* The values of iremote, image, remote, name after lines 99-116.
ParsedArgs ==
    LET p0 == ParseRemote(args[1])
        p1 == IF Len(args) = 1 THEN ParseRemote(<<>>) ELSE ParseRemote(args[2])
    IN  IF Len(args) = 0
        THEN [err |-> FALSE, iremote |-> <<>>, image |-> <<>>, remote |-> <<>>, name |-> <<>>]
        ELSE IF p0.err
        THEN [err |-> TRUE, iremote |-> <<>>, image |-> <<>>, remote |-> <<>>, name |-> <<>>]
        ELSE [err |-> p1.err, iremote |-> p0.remote, image |-> p0.name,
              remote |-> p1.remote, name |-> p1.name]

\* Variant: with --empty and one argument the argument stays the image.
EmptySwitchNoSwitch(p) ==
    IF ~flags.empty THEN p
    ELSE IF Len(args) > 1 THEN [p EXCEPT !.err = TRUE]
    ELSE IF Len(args) = 0
    THEN LET d == ParseRemote(<<>>)
         IN  [p EXCEPT !.err = d.err, !.remote = d.remote, !.name = d.name]
    ELSE p

\* Variant: --empty with two arguments is let through, the second names the instance.
EmptySwitchAllowsImage(p) ==
    IF ~flags.empty THEN p
    ELSE IF Len(args) = 0
    THEN LET d == ParseRemote(<<>>)
         IN  [p EXCEPT !.err = d.err, !.remote = d.remote, !.name = d.name]
    ELSE IF Len(args) = 1
    THEN [p EXCEPT !.name = p.image, !.remote = p.iremote,
                   !.image = <<>>, !.iremote = <<>>]
    ELSE p

\* The values after the --empty block, lines 118-135.
EmptySwitch(p) ==
    IF ~flags.empty THEN p
    ELSE IF Len(args) > 1 THEN [p EXCEPT !.err = TRUE]
    ELSE IF Len(args) = 0
    THEN LET d == ParseRemote(<<>>)
         IN  [p EXCEPT !.err = d.err, !.remote = d.remote, !.name = d.name]
    ELSE [p EXCEPT !.name = p.image, !.remote = p.iremote,
                   !.image = <<>>, !.iremote = <<>>]

Begin ==
    /\ pc = "create"
    /\ LET p == ParsedArgs
           q == EmptySwitch(p)
       IN  IF stdin = "malformed"
           THEN /\ Return("stdin")
                /\ UNCHANGED <<stdinData, name, image, remote, iremote>>
           ELSE /\ stdinData' = StdinDoc(stdin)
                /\ IF p.err
                   THEN /\ Return("ParseRemote")
                        /\ UNCHANGED <<name, image, remote, iremote>>
                   ELSE IF q.err
                   THEN /\ Return(IF flags.empty /\ Len(args) > 1
                                  THEN "EmptyWithImage" ELSE "ParseRemote")
                        /\ UNCHANGED <<name, image, remote, iremote>>
                   ELSE /\ pc' = "connect"
                        /\ err' = ""
                        /\ name' = q.name /\ image' = q.image
                        /\ remote' = q.remote /\ iremote' = q.iremote
    /\ UNCHANGED <<args, flags, stdin, calls, failed, devicesMap, configMap, profiles,
                   req, imgInfo, guessCall, op, opInfo, signals, cancels, waitStarted,
                   retName, advisory, seen>>

(* ----------------------- create, lines 137-163 -------------------------- *)
Connect ==
    /\ pc = "connect"
    /\ \E ok \in BOOLEAN :
         /\ DoCall("GetInstanceServer", "create", remote, ok)
         /\ IF ~ok
            THEN /\ Return("GetInstanceServer")
                 /\ UNCHANGED <<profiles, devicesMap>>
            ELSE /\ pc' = "network"
                 /\ err' = ""
                 /\ profiles' = flags.profile
                 /\ devicesMap' = stdinData.devices
    /\ UNCHANGED <<args, flags, stdin, stdinData, name, image, remote, iremote,
                   configMap, req, imgInfo, guessCall, op, opInfo, signals, cancels,
                   waitStarted, retName, advisory, seen>>

(* ----------------------- create, lines 165-176 -------------------------- *)
NicDevice(nictype, parent) ==
    ("type" :> "nic") @@ ("nictype" :> nictype) @@ ("parent" :> parent)

\* Variant: every network gives a bridged nic, whatever its type.
NetworkAlwaysBridged ==
    /\ pc = "network"
    /\ IF flags.network = ""
       THEN /\ pc' = "config"
            /\ UNCHANGED <<calls, failed, err, devicesMap, seen>>
       ELSE \E ok \in BOOLEAN, type \in {"bridge", "physical"} :
              /\ DoCall("GetNetwork", "create", <<flags.network>>, ok)
              /\ IF ~ok
                 THEN /\ Return("GetNetwork")
                      /\ UNCHANGED <<devicesMap, seen>>
                 ELSE /\ pc' = "config"
                      /\ err' = ""
                      /\ seen' = [seen EXCEPT !.netType = type]
                      /\ devicesMap' =
                           MapSet(devicesMap, flags.network,
                                  NicDevice("bridged", flags.network))
    /\ UNCHANGED <<args, flags, stdin, stdinData, name, image, remote, iremote,
                   configMap, profiles, req, imgInfo, guessCall, op, opInfo, signals,
                   cancels, waitStarted, retName, advisory>>

Network ==
    /\ pc = "network"
    /\ IF flags.network = ""
       THEN /\ pc' = "config"
            /\ UNCHANGED <<calls, failed, err, devicesMap, seen>>
       ELSE \E ok \in BOOLEAN, type \in {"bridge", "physical"} :
              /\ DoCall("GetNetwork", "create", <<flags.network>>, ok)
              /\ IF ~ok
                 THEN /\ Return("GetNetwork")
                      /\ UNCHANGED <<devicesMap, seen>>
                 ELSE /\ pc' = "config"
                      /\ err' = ""
                      /\ seen' = [seen EXCEPT !.netType = type]
                      /\ devicesMap' =
                           MapSet(devicesMap, flags.network,
                                  NicDevice(IF type = "bridge" THEN "bridged" ELSE "macvlan",
                                            flags.network))
    /\ UNCHANGED <<args, flags, stdin, stdinData, name, image, remote, iremote,
                   configMap, profiles, req, imgInfo, guessCall, op, opInfo, signals,
                   cancels, waitStarted, retName, advisory>>

(* ----------------------- create, lines 178-190 -------------------------- *)
\* The loop over c.flagConfig; bad is set at the first entry without "=".
RECURSIVE ApplyConfig(_, _)
ApplyConfig(m, entries) ==
    IF entries = <<>> THEN [bad |-> FALSE, map |-> m]
    ELSE IF ~Contains(Head(entries), "=") THEN [bad |-> TRUE, map |-> m]
    ELSE LET fields == SplitN2(Head(entries), "=")
         IN  ApplyConfig(MapSet(m, fields[1], fields[2]), Tail(entries))

Config ==
    /\ pc = "config"
    /\ LET r == ApplyConfig(stdinData.config, flags.config)
       IN  /\ configMap' = r.map
           /\ IF r.bad THEN Return("BadKeyValue")
                       ELSE pc' = "storage" /\ err' = ""
    /\ UNCHANGED <<args, flags, stdin, stdinData, calls, failed, name, image, remote,
                   iremote, devicesMap, profiles, req, imgInfo, guessCall, op, opInfo,
                   signals, cancels, waitStarted, retName, advisory, seen>>

(* ----------------------- create, lines 192-204 -------------------------- *)
RootDevice(pool) == ("type" :> "disk") @@ ("path" :> "/") @@ ("pool" :> pool)

\* Variant: an existing "root" device is kept, the pool only fills a gap.
StorageKeepsRoot ==
    /\ pc = "storage"
    /\ IF flags.storage = ""
       THEN /\ pc' = "request"
            /\ UNCHANGED <<calls, failed, err, devicesMap>>
       ELSE \E ok \in BOOLEAN :
              /\ DoCall("GetStoragePool", "create", <<flags.storage>>, ok)
              /\ IF ~ok
                 THEN /\ Return("GetStoragePool")
                      /\ UNCHANGED devicesMap
                 ELSE /\ pc' = "request"
                      /\ err' = ""
                      /\ devicesMap' = IF "root" \in DOMAIN devicesMap THEN devicesMap
                                       ELSE MapSet(devicesMap, "root", RootDevice(flags.storage))
    /\ UNCHANGED <<args, flags, stdin, stdinData, name, image, remote, iremote,
                   configMap, profiles, req, imgInfo, guessCall, op, opInfo, signals,
                   cancels, waitStarted, retName, advisory, seen>>

\* Variant: the error of d.GetStoragePool is dropped.
StorageIgnoreErr ==
    /\ pc = "storage"
    /\ IF flags.storage = ""
       THEN /\ pc' = "request"
            /\ UNCHANGED <<calls, failed, err, devicesMap>>
       ELSE \E ok \in BOOLEAN :
              /\ DoCall("GetStoragePool", "create", <<flags.storage>>, ok)
              /\ pc' = "request"
              /\ err' = ""
              /\ devicesMap' = MapSet(devicesMap, "root", RootDevice(flags.storage))
    /\ UNCHANGED <<args, flags, stdin, stdinData, name, image, remote, iremote,
                   configMap, profiles, req, imgInfo, guessCall, op, opInfo, signals,
                   cancels, waitStarted, retName, advisory, seen>>

Storage ==
    /\ pc = "storage"
    /\ IF flags.storage = ""
       THEN /\ pc' = "request"
            /\ UNCHANGED <<calls, failed, err, devicesMap>>
       ELSE \E ok \in BOOLEAN :
              /\ DoCall("GetStoragePool", "create", <<flags.storage>>, ok)
              /\ IF ~ok
                 THEN /\ Return("GetStoragePool")
                      /\ UNCHANGED devicesMap
                 ELSE /\ pc' = "request"
                      /\ err' = ""
                      /\ devicesMap' = MapSet(devicesMap, "root", RootDevice(flags.storage))
    /\ UNCHANGED <<args, flags, stdin, stdinData, name, image, remote, iremote,
                   configMap, profiles, req, imgInfo, guessCall, op, opInfo, signals,
                   cancels, waitStarted, retName, advisory, seen>>

(* ----------------------- create, lines 206-226 -------------------------- *)
\* Variant: --no-profiles is not looked at.
BuildRequestIgnoresNoProfiles ==
    /\ pc = "request"
    /\ req' = [ name |-> name, type |-> flags.type,
                config |-> configMap, devices |-> devicesMap,
                profilesNil |-> Len(profiles) = 0
                                /\ Len(stdinData.profiles) = 0,
                profiles |-> IF Len(profiles) = 0
                             THEN stdinData.profiles ELSE profiles,
                ephemeral |-> flags.ephemeral,
                sourceType |-> "", sourceAlias |-> <<>> ]
    /\ pc' = IF ~flags.empty THEN "guess" ELSE "submitempty"
    /\ UNCHANGED <<args, flags, stdin, stdinData, calls, failed, err, name, image,
                   remote, iremote, devicesMap, configMap, profiles, imgInfo,
                   guessCall, op, opInfo, signals, cancels, waitStarted, retName,
                   advisory, seen>>

BuildRequest ==
    /\ pc = "request"
    /\ req' = [ name |-> name, type |-> flags.type,
                config |-> configMap, devices |-> devicesMap,
                profilesNil |-> ~flags.noProfiles /\ Len(profiles) = 0
                                /\ Len(stdinData.profiles) = 0,
                profiles |-> IF ~flags.noProfiles /\ Len(profiles) = 0
                             THEN stdinData.profiles ELSE profiles,
                ephemeral |-> flags.ephemeral,
                sourceType |-> "", sourceAlias |-> <<>> ]
    /\ pc' = IF ~flags.empty THEN "guess" ELSE "submitempty"
    /\ UNCHANGED <<args, flags, stdin, stdinData, calls, failed, err, name, image,
                   remote, iremote, devicesMap, configMap, profiles, imgInfo,
                   guessCall, op, opInfo, signals, cancels, waitStarted, retName,
                   advisory, seen>>

(* ------------------- guessImage, lines 328-356 -------------------------- *)
Probe(fn, arg, ok) == [fn |-> fn, arg |-> arg, ok |-> ok]

\* Variant: the test whether the head names a configured remote is missing.
guessImageNoHeadCheck(rem, irem, img, aliasOK, imageOK) ==
    LET fields == SplitN2(img, "/")
    IN  IF rem # irem
        THEN [remote |-> irem, image |-> img, probes |-> <<>>]
        ELSE IF aliasOK
        THEN [remote |-> irem, image |-> img,
              probes |-> <<Probe("GetImageAlias", img, TRUE)>>]
        ELSE IF imageOK
        THEN [remote |-> irem, image |-> img,
              probes |-> <<Probe("GetImageAlias", img, FALSE), Probe("GetImage", img, TRUE)>>]
        ELSE IF Len(fields) = 1
        THEN [remote |-> fields[1], image |-> Default,
              probes |-> <<Probe("GetImageAlias", img, FALSE), Probe("GetImage", img, FALSE)>>]
        ELSE [remote |-> fields[1], image |-> fields[2],
              probes |-> <<Probe("GetImageAlias", img, FALSE), Probe("GetImage", img, FALSE)>>]

\* Variant: the token is split at every "/" and only the second field is kept.
guessImageSplitAll(rem, irem, img, aliasOK, imageOK) ==
    LET fields == Split(img, "/")
    IN  IF rem # irem
        THEN [remote |-> irem, image |-> img, probes |-> <<>>]
        ELSE IF fields[1] \notin DOMAIN Remotes
        THEN [remote |-> irem, image |-> img, probes |-> <<>>]
        ELSE IF aliasOK
        THEN [remote |-> irem, image |-> img,
              probes |-> <<Probe("GetImageAlias", img, TRUE)>>]
        ELSE IF imageOK
        THEN [remote |-> irem, image |-> img,
              probes |-> <<Probe("GetImageAlias", img, FALSE), Probe("GetImage", img, TRUE)>>]
        ELSE IF Len(fields) = 1
        THEN [remote |-> fields[1], image |-> Default,
              probes |-> <<Probe("GetImageAlias", img, FALSE), Probe("GetImage", img, FALSE)>>]
        ELSE [remote |-> fields[1], image |-> fields[2],
              probes |-> <<Probe("GetImageAlias", img, FALSE), Probe("GetImage", img, FALSE)>>]

\* Variant: a token without "/" is returned as the image name of the new remote.
guessImageKeepsToken(rem, irem, img, aliasOK, imageOK) ==
    LET fields == SplitN2(img, "/")
    IN  IF rem # irem
        THEN [remote |-> irem, image |-> img, probes |-> <<>>]
        ELSE IF fields[1] \notin DOMAIN Remotes
        THEN [remote |-> irem, image |-> img, probes |-> <<>>]
        ELSE IF aliasOK
        THEN [remote |-> irem, image |-> img,
              probes |-> <<Probe("GetImageAlias", img, TRUE)>>]
        ELSE IF imageOK
        THEN [remote |-> irem, image |-> img,
              probes |-> <<Probe("GetImageAlias", img, FALSE), Probe("GetImage", img, TRUE)>>]
        ELSE IF Len(fields) = 1
        THEN [remote |-> fields[1], image |-> img,
              probes |-> <<Probe("GetImageAlias", img, FALSE), Probe("GetImage", img, FALSE)>>]
        ELSE [remote |-> fields[1], image |-> fields[2],
              probes |-> <<Probe("GetImageAlias", img, FALSE), Probe("GetImage", img, FALSE)>>]

\* Variant: a successful alias lookup does not end the chain; the fingerprint
\* lookup decides.
guessImageAliasIgnored(rem, irem, img, aliasOK, imageOK) ==
    LET fields == SplitN2(img, "/")
    IN  IF rem # irem
        THEN [remote |-> irem, image |-> img, probes |-> <<>>]
        ELSE IF fields[1] \notin DOMAIN Remotes
        THEN [remote |-> irem, image |-> img, probes |-> <<>>]
        ELSE IF imageOK
        THEN [remote |-> irem, image |-> img,
              probes |-> <<Probe("GetImageAlias", img, aliasOK), Probe("GetImage", img, TRUE)>>]
        ELSE IF Len(fields) = 1
        THEN [remote |-> fields[1], image |-> Default,
              probes |-> <<Probe("GetImageAlias", img, aliasOK), Probe("GetImage", img, FALSE)>>]
        ELSE [remote |-> fields[1], image |-> fields[2],
              probes |-> <<Probe("GetImageAlias", img, aliasOK), Probe("GetImage", img, FALSE)>>]

\* Variant: the comparison of the two remote names is missing.
guessImageNoRemoteCheck(rem, irem, img, aliasOK, imageOK) ==
    LET fields == SplitN2(img, "/")
    IN  IF fields[1] \notin DOMAIN Remotes
        THEN [remote |-> irem, image |-> img, probes |-> <<>>]
        ELSE IF aliasOK
        THEN [remote |-> irem, image |-> img,
              probes |-> <<Probe("GetImageAlias", img, TRUE)>>]
        ELSE IF imageOK
        THEN [remote |-> irem, image |-> img,
              probes |-> <<Probe("GetImageAlias", img, FALSE), Probe("GetImage", img, TRUE)>>]
        ELSE IF Len(fields) = 1
        THEN [remote |-> fields[1], image |-> Default,
              probes |-> <<Probe("GetImageAlias", img, FALSE), Probe("GetImage", img, FALSE)>>]
        ELSE [remote |-> fields[1], image |-> fields[2],
              probes |-> <<Probe("GetImageAlias", img, FALSE), Probe("GetImage", img, FALSE)>>]

\* aliasOK, imageOK: whether d.GetImageAlias(image), d.GetImage(image) succeed.
\* The result carries the lookups made on the target server, in order.
guessImage(rem, irem, img, aliasOK, imageOK) ==
    LET fields == SplitN2(img, "/")
    IN  IF rem # irem
        THEN [remote |-> irem, image |-> img, probes |-> <<>>]
        ELSE IF fields[1] \notin DOMAIN Remotes
        THEN [remote |-> irem, image |-> img, probes |-> <<>>]
        ELSE IF aliasOK
        THEN [remote |-> irem, image |-> img,
              probes |-> <<Probe("GetImageAlias", img, TRUE)>>]
        ELSE IF imageOK
        THEN [remote |-> irem, image |-> img,
              probes |-> <<Probe("GetImageAlias", img, FALSE), Probe("GetImage", img, TRUE)>>]
        ELSE IF Len(fields) = 1
        THEN [remote |-> fields[1], image |-> Default,
              probes |-> <<Probe("GetImageAlias", img, FALSE), Probe("GetImage", img, FALSE)>>]
        ELSE [remote |-> fields[1], image |-> fields[2],
              probes |-> <<Probe("GetImageAlias", img, FALSE), Probe("GetImage", img, FALSE)>>]

ProbeCalls(probes) == [i \in 1..Len(probes) |-> Call(probes[i].fn, "guessImage", probes[i].arg)]

(* ----------------------- create, line 228 ------------------------------- *)
GuessImage ==
    /\ pc = "guess"
    /\ \E aliasOK \in BOOLEAN, imageOK \in BOOLEAN :
         LET g == guessImage(remote, iremote, image, aliasOK, imageOK)
         IN  /\ iremote' = g.remote
             /\ image' = g.image
             /\ calls' = calls \o ProbeCalls(g.probes)
             /\ failed' = failed \cup
                    {ProbeCalls(g.probes)[i] : i \in {j \in 1..Len(g.probes) : ~g.probes[j].ok}}
             /\ guessCall' = [ called |-> TRUE, remote |-> remote, iremote |-> iremote,
                               image |-> image,
                               aliasOK |-> aliasOK, imageOK |-> imageOK,
                               outRemote |-> g.remote, outImage |-> g.image,
                               probes |-> g.probes ]
    /\ pc' = "imgserver"
    /\ UNCHANGED <<args, flags, stdin, stdinData, err, name, remote, devicesMap,
                   configMap, profiles, req, imgInfo, op, opInfo, signals, cancels,
                   waitStarted, retName, advisory, seen>>

(* ----------------------- create, lines 232-245 -------------------------- *)
\* Variant: an empty image name is not replaced by "default".
ConnectImageNoDefault ==
    /\ pc = "imgserver"
    /\ IF iremote = remote
       THEN /\ pc' = "resolve"
            /\ image' = image
            /\ UNCHANGED <<calls, failed, err>>
       ELSE \E ok \in BOOLEAN :
              /\ DoCall("GetImageServer", "create", iremote, ok)
              /\ IF ~ok
                 THEN Return("GetImageServer") /\ UNCHANGED image
                 ELSE /\ pc' = "resolve"
                      /\ err' = ""
                      /\ image' = image
    /\ UNCHANGED <<args, flags, stdin, stdinData, name, remote, iremote, devicesMap,
                   configMap, profiles, req, imgInfo, guessCall, op, opInfo, signals,
                   cancels, waitStarted, retName, advisory, seen>>

ConnectImage ==
    /\ pc = "imgserver"
    /\ IF iremote = remote
       THEN /\ pc' = "resolve"
            /\ image' = IF image = <<>> THEN Default ELSE image
            /\ UNCHANGED <<calls, failed, err>>
       ELSE \E ok \in BOOLEAN :
              /\ DoCall("GetImageServer", "create", iremote, ok)
              /\ IF ~ok
                 THEN Return("GetImageServer") /\ UNCHANGED image
                 ELSE /\ pc' = "resolve"
                      /\ err' = ""
                      /\ image' = IF image = <<>> THEN Default ELSE image
    /\ UNCHANGED <<args, flags, stdin, stdinData, name, remote, iremote, devicesMap,
                   configMap, profiles, req, imgInfo, guessCall, op, opInfo, signals,
                   cancels, waitStarted, retName, advisory, seen>>

(* ----------------------- create, lines 247-259 -------------------------- *)
AliasTargets == { <<"f">>, <<"g">> }

\* Variant: the streaming-catalog remote is resolved like any other.
ResolveAliasNoFastPath ==
    /\ pc = "resolve"
    /\ \E ok \in BOOLEAN, target \in AliasTargets :
         /\ DoCall("GetImageAlias", "create", image, ok)
         /\ req' = IF ok THEN [req EXCEPT !.sourceAlias = image] ELSE req
         /\ image' = IF ok THEN target ELSE image
         /\ seen' = IF ok THEN [seen EXCEPT !.aliasTarget = target] ELSE seen
         /\ pc' = "getimage"
         /\ UNCHANGED imgInfo
    /\ UNCHANGED <<args, flags, stdin, stdinData, err, name, remote, iremote,
                   devicesMap, configMap, profiles, guessCall, op, opInfo, signals,
                   cancels, waitStarted, retName, advisory>>

\* Variant: the alias target is recorded as the source alias.
ResolveAliasRecordsTarget ==
    /\ pc = "resolve"
    /\ IF Remotes[iremote] = "simplestreams"
       THEN /\ imgInfo' = [fingerprint |-> image, public |-> TRUE]
            /\ req' = [req EXCEPT !.sourceAlias = image]
            /\ pc' = "submit"
            /\ UNCHANGED <<calls, failed, image, seen>>
       ELSE \E ok \in BOOLEAN, target \in AliasTargets :
              /\ DoCall("GetImageAlias", "create", image, ok)
              /\ req' = IF ok THEN [req EXCEPT !.sourceAlias = target] ELSE req
              /\ image' = IF ok THEN target ELSE image
              /\ seen' = IF ok THEN [seen EXCEPT !.aliasTarget = target] ELSE seen
              /\ pc' = "getimage"
              /\ UNCHANGED imgInfo
    /\ UNCHANGED <<args, flags, stdin, stdinData, err, name, remote, iremote,
                   devicesMap, configMap, profiles, guessCall, op, opInfo, signals,
                   cancels, waitStarted, retName, advisory>>

ResolveAlias ==
    /\ pc = "resolve"
    /\ IF Remotes[iremote] = "simplestreams"
       THEN /\ imgInfo' = [fingerprint |-> image, public |-> TRUE]
            /\ req' = [req EXCEPT !.sourceAlias = image]
            /\ pc' = "submit"
            /\ UNCHANGED <<calls, failed, image, seen>>
       ELSE \E ok \in BOOLEAN, target \in AliasTargets :
              /\ DoCall("GetImageAlias", "create", image, ok)
              /\ req' = IF ok THEN [req EXCEPT !.sourceAlias = image] ELSE req
              /\ image' = IF ok THEN target ELSE image
              /\ seen' = IF ok THEN [seen EXCEPT !.aliasTarget = target] ELSE seen
              /\ pc' = "getimage"
              /\ UNCHANGED imgInfo
    /\ UNCHANGED <<args, flags, stdin, stdinData, err, name, remote, iremote,
                   devicesMap, configMap, profiles, guessCall, op, opInfo, signals,
                   cancels, waitStarted, retName, advisory>>

(* ----------------------- create, lines 261-266 -------------------------- *)
GetImage ==
    /\ pc = "getimage"
    /\ \E ok \in BOOLEAN :
         /\ DoCall("GetImage", "create", image, ok)
         /\ IF ~ok
            THEN Return("GetImage") /\ UNCHANGED imgInfo
            ELSE /\ pc' = "submit"
                 /\ err' = ""
                 /\ imgInfo' = [fingerprint |-> image, public |-> FALSE]
    /\ UNCHANGED <<args, flags, stdin, stdinData, name, image, remote, iremote,
                   devicesMap, configMap, profiles, req, guessCall, op, opInfo,
                   signals, cancels, waitStarted, retName, advisory, seen>>

(* --------------------- the server-side operation ----------------------- *)
\* Resource maps the server may report for the operation.
ResourceChoices ==
    { [hasContainers |-> FALSE, containers |-> <<>>],
      [hasContainers |-> TRUE,  containers |-> <<>>],
      [hasContainers |-> TRUE,  containers |-> << <<"/", "i", "/", "c">> >>],
      [hasContainers |-> TRUE,  containers |-> << <<"/", "i", "/", "c">>, <<"/", "i", "/", "d">> >>] }

NewOp == [ state |-> "running", handler |-> FALSE, emitted |-> 0, delivered |-> 0,
           attachedAt |-> 0 ]

\* op.Get() / op.GetTarget(): the operation as the server reports it now,
\* with the resource map res the server gave it.
Snapshot(o, res) == [ state |-> o.state, containers |-> res.containers,
                      hasContainers |-> res.hasContainers ]

\* The server emits a progress event; a registered handler receives it.
OpProgress ==
    /\ pc \notin {"run", "usage", "done"}
    /\ op.state = "running"
    /\ op.emitted < MaxEvents
    /\ op' = [op EXCEPT !.emitted = @ + 1,
                        !.delivered = IF op.handler THEN @ + 1 ELSE @]
    /\ UNCHANGED <<pc, args, flags, stdin, stdinData, calls, failed, err, name, image,
                   remote, iremote, devicesMap, configMap, profiles, req, imgInfo,
                   guessCall, opInfo, signals, cancels, waitStarted, retName, advisory, seen>>

\* The server finishes the operation.
OpFinish ==
    /\ pc \notin {"run", "usage", "done"}
    /\ op.state = "running"
    /\ \E s \in {"success", "failure"} : op' = [op EXCEPT !.state = s]
    /\ UNCHANGED <<pc, args, flags, stdin, stdinData, calls, failed, err, name, image,
                   remote, iremote, devicesMap, configMap, profiles, req, imgInfo,
                   guessCall, opInfo, signals, cancels, waitStarted, retName, advisory, seen>>

\* The user interrupts (SIGINT) while the wait is in progress.
Signal ==
    /\ pc = "wait"
    /\ signals.received < MaxSignals
    /\ signals' = [pending |-> signals.pending + 1, received |-> signals.received + 1]
    /\ UNCHANGED <<pc, args, flags, stdin, stdinData, calls, failed, err, name, image,
                   remote, iremote, devicesMap, configMap, profiles, req, imgInfo,
                   guessCall, op, opInfo, cancels, waitStarted, retName, advisory, seen>>

(* ----------------------- create, lines 268-272 -------------------------- *)
SubmitImage ==
    /\ pc = "submit"
    /\ \E ok \in BOOLEAN :
         /\ DoCall("CreateInstanceFromImage", "create", req.name, ok)
         /\ IF ~ok
            THEN Return("CreateInstanceFromImage") /\ UNCHANGED op
            ELSE pc' = "addhandler" /\ err' = "" /\ op' = NewOp
    /\ UNCHANGED <<args, flags, stdin, stdinData, name, image, remote, iremote,
                   devicesMap, configMap, profiles, req, imgInfo, guessCall, opInfo,
                   signals, cancels, waitStarted, retName, advisory, seen>>

(* ----------------------- create, lines 274-284 -------------------------- *)
\* Variant: the error of op.AddHandler is dropped and the wait is started.
AddHandlerIgnoreErr ==
    /\ pc = "addhandler"
    /\ \E ok \in BOOLEAN :
         /\ DoCall("AddHandler", "create", <<>>, ok)
         /\ pc' = "callwait"
         /\ err' = ""
         /\ op' = IF ok THEN [op EXCEPT !.handler = TRUE, !.attachedAt = op.emitted]
                        ELSE op
    /\ UNCHANGED <<args, flags, stdin, stdinData, name, image, remote, iremote,
                   devicesMap, configMap, profiles, req, imgInfo, guessCall, opInfo,
                   signals, cancels, waitStarted, retName, advisory, seen>>

AddHandler ==
    /\ pc = "addhandler"
    /\ \E ok \in BOOLEAN :
         /\ DoCall("AddHandler", "create", <<>>, ok)
         /\ IF ~ok
            THEN Return("AddHandler") /\ UNCHANGED op
            ELSE /\ pc' = "callwait"
                 /\ err' = ""
                 /\ op' = [op EXCEPT !.handler = TRUE, !.attachedAt = op.emitted]
    /\ UNCHANGED <<args, flags, stdin, stdinData, name, image, remote, iremote,
                   devicesMap, configMap, profiles, req, imgInfo, guessCall, opInfo,
                   signals, cancels, waitStarted, retName, advisory, seen>>

(* ----------------------- create, line 286 ------------------------------- *)
\* The call of utils.CancelableWait: from here on the wait is in progress.
StartWait ==
    /\ pc = "callwait"
    /\ calls' = Append(calls, Call("CancelableWait", "create", <<>>))
    /\ waitStarted' = TRUE
    /\ pc' = "wait"
    /\ UNCHANGED <<args, flags, stdin, stdinData, failed, err, name, image, remote,
                   iremote, devicesMap, configMap, profiles, req, imgInfo, guessCall,
                   op, opInfo, signals, cancels, retName, advisory, seen>>

(* --------------- utils.CancelableWait and lines 287-291 ----------------- *)
\* Variant: after an error the wait is entered again instead of returning.
AfterWaitRetry(e) ==
    IF e # "" THEN pc' = "callwait" /\ err' = "" ELSE pc' = "gettarget" /\ err' = ""

\* Lines 287-291: an error of the wait is returned, else create goes on.
AfterWait(e) ==
    IF e # "" THEN Return(e) ELSE pc' = "gettarget" /\ err' = ""

\* The operation has reached a terminal state: the wait returns its result.
WaitReturn ==
    /\ pc = "wait"
    /\ op.state \in Terminal
    /\ AfterWait(IF op.state = "success" THEN "" ELSE "Operation")
    /\ UNCHANGED <<args, flags, stdin, stdinData, calls, failed, name, image, remote,
                   iremote, devicesMap, configMap, profiles, req, imgInfo, guessCall,
                   op, opInfo, signals, cancels, waitStarted, retName, advisory, seen>>

\* An interrupt is pending: it is consumed, one cancel is sent to the server (which may or may
\* not honour it) and the wait returns without waiting for the operation.
WaitInterrupt ==
    /\ pc = "wait"
    /\ signals.pending > 0
    /\ signals' = [signals EXCEPT !.pending = @ - 1]
    /\ cancels' = cancels + 1
    /\ calls' = Append(calls, Call("Cancel", "CancelableWait", <<>>))
    /\ \E honoured \in BOOLEAN :
         op' = IF honoured /\ op.state = "running"
               THEN [op EXCEPT !.state = "cancelled"] ELSE op
    /\ AfterWait("Canceled")
    /\ UNCHANGED <<args, flags, stdin, stdinData, failed, name, image, remote, iremote,
                   devicesMap, configMap, profiles, req, imgInfo, guessCall, opInfo,
                   waitStarted, retName, advisory, seen>>

(* ----------------------- create, lines 293-299 -------------------------- *)
GetTarget ==
    /\ pc = "gettarget"
    /\ \E ok \in BOOLEAN, res \in ResourceChoices :
         /\ DoCall("GetTarget", "create", <<>>, ok)
         /\ IF ~ok
            THEN Return("GetTarget") /\ UNCHANGED opInfo
            ELSE pc' = "extract" /\ err' = "" /\ opInfo' = Snapshot(op, res)
    /\ UNCHANGED <<args, flags, stdin, stdinData, name, image, remote, iremote,
                   devicesMap, configMap, profiles, req, imgInfo, guessCall, op,
                   signals, cancels, waitStarted, retName, advisory, seen>>

(* ----------------------- create, lines 300-309 -------------------------- *)
SubmitEmpty ==
    /\ pc = "submitempty"
    /\ \E ok \in BOOLEAN, res \in ResourceChoices :
         /\ DoCall("CreateInstance", "create", req.name, ok)
         /\ req' = [req EXCEPT !.sourceType = "none"]
         /\ IF ~ok
            THEN Return("CreateInstance") /\ UNCHANGED <<op, opInfo>>
            ELSE /\ pc' = "extract"
                 /\ err' = ""
                 /\ op' = NewOp
                 /\ opInfo' = Snapshot(NewOp, res)
    /\ UNCHANGED <<args, flags, stdin, stdinData, name, image, remote, iremote,
                   devicesMap, configMap, profiles, imgInfo, guessCall, signals,
                   cancels, waitStarted, retName, advisory, seen>>

(* ----------------------- create, lines 311-320 -------------------------- *)
\* Variant: only a missing "containers" entry is an error, an empty one is not.
ExtractNoLenCheck ==
    /\ pc = "extract"
    /\ IF ~opInfo.hasContainers
       THEN Return("NoResources") /\ UNCHANGED name
       ELSE /\ pc' = "checknet"
            /\ err' = ""
            /\ name' = IF Len(opInfo.containers) = 1 /\ name = <<>>
                       THEN LET fields == Split(opInfo.containers[1], "/")
                            IN  fields[Len(fields)]
                       ELSE name
    /\ UNCHANGED <<args, flags, stdin, stdinData, calls, failed, image, remote,
                   iremote, devicesMap, configMap, profiles, req, imgInfo, guessCall,
                   op, opInfo, signals, cancels, waitStarted, retName, advisory, seen>>

Extract ==
    /\ pc = "extract"
    /\ IF ~opInfo.hasContainers \/ Len(opInfo.containers) = 0
       THEN Return("NoResources") /\ UNCHANGED name
       ELSE /\ pc' = "checknet"
            /\ err' = ""
            /\ name' = IF Len(opInfo.containers) = 1 /\ name = <<>>
                       THEN LET fields == Split(opInfo.containers[1], "/")
                            IN  fields[Len(fields)]
                       ELSE name
    /\ UNCHANGED <<args, flags, stdin, stdinData, calls, failed, image, remote,
                   iremote, devicesMap, configMap, profiles, req, imgInfo, guessCall,
                   op, opInfo, signals, cancels, waitStarted, retName, advisory, seen>>

(* ------------- create, lines 322-325; checkNetwork, 358-373 ------------- *)
ExpandedDeviceChoices ==
    { <<>>,
      ("root" :> RootDevice("p")),
      ("root" :> RootDevice("p")) @@ ("eth0" :> NicDevice("bridged", "n")) }

HasNic(devs) == \E d \in DOMAIN devs : devs[d]["type"] = "nic"

\* Variant: a failed d.GetInstance is returned as the error of create.
CheckNetworkPropagates ==
    /\ pc = "checknet"
    /\ \E ok \in BOOLEAN, devs \in ExpandedDeviceChoices :
         /\ DoCall("GetInstance", "checkNetwork", name, ok)
         /\ advisory' = (ok /\ ~HasNic(devs))
         /\ seen' = [seen EXCEPT !.fetched = ok, !.devices = IF ok THEN devs ELSE <<>>]
         /\ Return(IF ok THEN "" ELSE "GetInstance")
    /\ retName' = name
    /\ UNCHANGED <<args, flags, stdin, stdinData, name, image, remote, iremote,
                   devicesMap, configMap, profiles, req, imgInfo, guessCall, op,
                   opInfo, signals, cancels, waitStarted>>

CheckNetwork ==
    /\ pc = "checknet"
    /\ \E ok \in BOOLEAN, devs \in ExpandedDeviceChoices :
         /\ DoCall("GetInstance", "checkNetwork", name, ok)
         /\ advisory' = (ok /\ ~HasNic(devs))
         /\ seen' = [seen EXCEPT !.fetched = ok, !.devices = IF ok THEN devs ELSE <<>>]
    /\ retName' = name
    /\ Return("")
    /\ UNCHANGED <<args, flags, stdin, stdinData, name, image, remote, iremote,
                   devicesMap, configMap, profiles, req, imgInfo, guessCall, op,
                   opInfo, signals, cancels, waitStarted>>

(* --------------------------- specifications ----------------------------- *)
Next ==
    \/ Run \/ Begin \/ Connect \/ Network \/ Config \/ Storage \/ BuildRequest
    \/ GuessImage \/ ConnectImage \/ ResolveAlias \/ GetImage
    \/ SubmitImage \/ AddHandler \/ StartWait \/ WaitReturn \/ WaitInterrupt
    \/ GetTarget \/ SubmitEmpty \/ Extract \/ CheckNetwork
    \/ OpProgress \/ OpFinish \/ Signal

Spec == Init /\ [][Next]_vars

\* create up to and including the submission of the creation request.
NextRequest ==
    \/ Run \/ Begin \/ Connect \/ Network \/ Config \/ Storage \/ BuildRequest
    \/ GuessImage \/ ConnectImage \/ ResolveAlias \/ GetImage
    \/ SubmitImage \/ SubmitEmpty

SpecRequest == InitRequest /\ [][NextRequest]_vars

\* guessImage applied to arbitrary arguments.
NextGuess == GuessImage

SpecGuess == InitGuess /\ [][NextGuess]_vars

\* The select of the wait is served: a terminal operation or a pending
\* interrupt is eventually acted upon.
FairTrackSpec ==
    InitTrack /\ [][Next]_vars /\ WF_vars(WaitReturn) /\ WF_vars(WaitInterrupt)

(* ------------------------------ properties ------------------------------ *)
BadConfigEntry == \E i \in 1..Len(flags.config) : ~Contains(flags.config[i], "=")

\* C1: with --empty and two positional arguments (image and name) create
\* returns an error and has made no remote call at all.
EmptyWithImageRejected ==
    (flags.empty /\ Len(args) = 2 /\ pc \notin {"run", "create"})
        => (pc = "done" /\ err # "" /\ calls = <<>>)

EmptyWithImageWitness ==
    /\ flags.empty /\ Len(args) = 2
    /\ flags.network # "" /\ flags.storage # ""
    /\ pc = "done" /\ err = "EmptyWithImage"

\* C2: when a config flag entry has no "=", create returns an error and no
\* remote call has been made in the invocation.
BadConfigNoRemoteCall ==
    /\ (BadConfigEntry /\ pc = "done") => err # ""
    /\ err = "BadKeyValue" => calls = <<>>

\* C3: when the created instance is extracted from the operation (and the
\* network validation runs and create succeeds), the wait has been entered
\* and the operation was in a terminal state, in image mode and in empty mode.
TrackedBeforeExtract ==
    (pc \in {"extract", "checknet"} \/ (pc = "done" /\ err = ""))
        => (waitStarted /\ opInfo.state \in Terminal)

\* C4: in image mode the handler is registered before the wait is entered, the
\* wait is never entered after a failed registration, and every progress event
\* emitted after the registration reaches the handler.
FirstIndex(fn) == CHOOSE i \in 1..Len(calls) : calls[i].fn = fn /\ \A j \in 1..(i-1) : calls[j].fn # fn

HandlerBeforeWait ==
    /\ waitStarted => /\ op.handler
                      /\ Called("AddHandler")
                      /\ FirstIndex("AddHandler") < FirstIndex("CancelableWait")
    /\ Call("AddHandler", "create", <<>>) \in failed
           => (~waitStarted /\ ~Called("CancelableWait") /\ pc = "done" /\ err = "AddHandler")
    /\ op.handler => op.delivered = op.emitted - op.attachedAt

HandlerBeforeWaitWitness ==
    /\ waitStarted /\ op.handler
    /\ op.attachedAt >= 1 /\ op.delivered >= 1

\* C5: an interrupt during the wait makes the wait return, also when the
\* operation never finishes, with exactly one cancel call; without an
\* interrupt no cancel call is issued.
InterruptCancelsOnce ==
    /\ [](cancels <= 1 /\ cancels <= signals.received)
    /\ [](Called("Cancel") <=> cancels = 1)
    /\ []((waitStarted /\ pc \notin {"callwait", "wait"} /\ op.state = "running")
             => (pc = "done" /\ err = "Canceled" /\ cancels = 1))
    /\ ((pc = "wait" /\ signals.pending > 0) ~> (pc # "wait"))

InterruptCancelsOnceWitness ==
    /\ pc = "done" /\ err = "Canceled" /\ cancels = 1
    /\ op.state = "running" /\ signals.received = 2

\* C6: a failed network lookup, storage-pool lookup, image fetch of create or
\* creation call ends create with that error; it is the last remote call, no
\* creation call follows a failed lookup and the network validation is not run.
FatalLookups == {"GetNetwork", "GetStoragePool", "GetImage"}

FatalSubmits == {"CreateInstanceFromImage", "CreateInstance"}

FailFast ==
    \A c \in failed :
        (c.by = "create" /\ c.fn \in FatalLookups \cup FatalSubmits)
            => /\ pc = "done" /\ err = c.fn
               /\ calls[Len(calls)] = c
               /\ ~Called("GetInstance")
               /\ c.fn \in FatalLookups
                     => (~Called("CreateInstanceFromImage") /\ ~Called("CreateInstance"))

FailFastWitness ==
    /\ pc = "done" /\ err = "GetImage"
    /\ Called("GetNetwork") /\ Called("GetStoragePool")

\* The arguments and the result of the guessImage call.
TokenHead(t) == SplitN2(t, "/")[1]

GuessUnchanged ==
    guessCall.outRemote = guessCall.iremote /\ guessCall.outImage = guessCall.image

GuessFallback ==
    /\ guessCall.called
    /\ guessCall.remote = guessCall.iremote
    /\ TokenHead(guessCall.image) \in DOMAIN Remotes
    /\ ~guessCall.aliasOK /\ ~guessCall.imageOK

\* C7: a token without colon whose part before the first "/" is not a
\* configured remote is returned unchanged with the source remote, whatever
\* exists on the target server.
GuessNotRemoteQualified ==
    (guessCall.called /\ ~Contains(guessCall.image, ":")
        /\ TokenHead(guessCall.image) \notin DOMAIN Remotes)
        => (GuessUnchanged /\ guessCall.probes = <<>>)

GuessNotRemoteQualifiedWitness ==
    /\ guessCall.called /\ ~Contains(guessCall.image, ":")
    /\ TokenHead(guessCall.image) \notin DOMAIN Remotes
    /\ guessCall.remote = guessCall.iremote
    /\ Contains(guessCall.image, "/")
    /\ ~guessCall.aliasOK /\ ~guessCall.imageOK

\* C8: in the fallback with a non-empty rest, the result is (remoteA, rest):
\* the token is the result remote, a "/", and the result image, and the
\* result remote has no "/".
GuessRemoteRest ==
    (GuessFallback /\ Contains(guessCall.image, "/")
        /\ Len(guessCall.image) > Len(TokenHead(guessCall.image)) + 1)
        => /\ guessCall.outRemote \o <<"/">> \o guessCall.outImage = guessCall.image
           /\ ~Contains(guessCall.outRemote, "/")
           /\ guessCall.outRemote \in DOMAIN Remotes

GuessRemoteRestWitness ==
    /\ GuessFallback
    /\ guessCall.outRemote # guessCall.iremote
    /\ Contains(guessCall.outImage, "/")

\* C9 as stated: in the fallback with an empty rest, for the token "remoteA"
\* and for the token "remoteA/", the result is (remoteA, "default").
GuessEmptyRestDefault ==
    (GuessFallback /\ Len(guessCall.image) <= Len(TokenHead(guessCall.image)) + 1)
        => (guessCall.outRemote = TokenHead(guessCall.image) /\ guessCall.outImage = Default)

\* C9 amended: in the fallback the token "remoteA" without "/" gives
\* (remoteA, "default"), and the token "remoteA/" gives (remoteA, "").
GuessNoSlashDefault ==
    /\ (GuessFallback /\ ~Contains(guessCall.image, "/"))
          => (guessCall.outRemote = guessCall.image /\ guessCall.outImage = Default)
    /\ (GuessFallback /\ Contains(guessCall.image, "/")
           /\ Len(guessCall.image) = Len(TokenHead(guessCall.image)) + 1)
          => (guessCall.outRemote = TokenHead(guessCall.image) /\ guessCall.outImage = <<>>)

GuessNoSlashDefaultWitness ==
    /\ GuessFallback
    /\ guessCall.image = <<"s", "/">>
    /\ guessCall.outImage = <<>>

\* C10: a token that resolves on the target as alias, or else as fingerprint,
\* is returned unchanged with the source remote; the alias lookup comes first,
\* the fingerprint lookup is made only after a failed alias lookup, and
\* nothing is looked up after a success.
GuessProbeChain ==
    guessCall.called =>
        /\ (guessCall.aliasOK \/ guessCall.imageOK) => GuessUnchanged
        /\ Len(guessCall.probes) <= 2
        /\ Len(guessCall.probes) >= 1 =>
              /\ guessCall.probes[1] = Probe("GetImageAlias", guessCall.image, guessCall.aliasOK)
              /\ Len(guessCall.probes) = 1 <=> guessCall.aliasOK
        /\ Len(guessCall.probes) = 2 =>
              guessCall.probes[2] = Probe("GetImage", guessCall.image, guessCall.imageOK)

GuessProbeChainWitness ==
    /\ guessCall.called
    /\ guessCall.remote = guessCall.iremote
    /\ TokenHead(guessCall.image) \in DOMAIN Remotes
    /\ Contains(guessCall.image, "/")
    /\ ~guessCall.aliasOK /\ guessCall.imageOK
    /\ Len(guessCall.probes) = 2

\* C11: when the source remote differs from the target remote, guessImage
\* returns the source remote and the token as they are and looks nothing up
\* on the target server, also when the head of the token names a remote.
GuessOtherRemoteAsIs ==
    (guessCall.called /\ guessCall.remote # guessCall.iremote)
        => /\ GuessUnchanged
           /\ guessCall.probes = <<>>
           /\ calls = <<>> /\ failed = {}

GuessOtherRemoteAsIsWitness ==
    /\ guessCall.called /\ guessCall.remote # guessCall.iremote
    /\ TokenHead(guessCall.image) \in DOMAIN Remotes
    /\ Contains(guessCall.image, "/")
    /\ ~guessCall.aliasOK /\ ~guessCall.imageOK

\* The creation call has been made, with req as its request.
Submitted == Called("CreateInstanceFromImage") \/ Called("CreateInstance")

\* The request is built (lines 206-223) and not yet submitted.
RequestBuilt == pc \in {"guess", "imgserver", "resolve", "getimage", "submit", "submitempty"}

\* C12: with a storage-pool flag whose pool exists, the request that is built
\* and submitted has devices["root"] = {type: disk, path: "/", pool: <pool>},
\* whatever structured input gave for "root" and also with a network named
\* "root"; nothing between building and submission changes it.
RootDeviceForced ==
    ((RequestBuilt \/ Submitted) /\ flags.storage # "")
        => /\ "root" \in DOMAIN req.devices
           /\ req.devices["root"] = RootDevice(flags.storage)
           /\ Call("GetStoragePool", "create", <<flags.storage>>) \notin failed

RootDeviceForcedWitness ==
    /\ Submitted
    /\ flags.storage = "p" /\ flags.network = "root" /\ stdin = "piped"
    /\ "root" \in DOMAIN stdinData.devices

\* C13: with --no-profiles or explicit profile flags the request's profiles
\* are the flag list in order (the empty list, not unset, when there is no
\* flag); else they are the structured-input profiles, unset when there are none.
ProfilePrecedence ==
    (RequestBuilt \/ Submitted)
        => IF flags.noProfiles \/ Len(flags.profile) > 0
           THEN ~req.profilesNil /\ req.profiles = flags.profile
           ELSE /\ req.profiles = stdinData.profiles
                /\ req.profilesNil <=> (stdinData.profiles = <<>>)

ProfilePrecedenceWitness ==
    /\ Submitted
    /\ flags.noProfiles /\ flags.profile = <<>>
    /\ stdinData.profiles # <<>>
    /\ req.profiles = <<>> /\ ~req.profilesNil

\* The nic device create derives from the network the server returned.
NicFor(network) ==
    NicDevice(IF seen.netType = "bridge" THEN "bridged" ELSE "macvlan", network)

\* C19 as stated: with a network flag whose lookup succeeded, the request has
\* under the network name exactly the nic device (bridged for a bridge,
\* macvlan otherwise), and every other structured-input device unchanged.
NetworkDeviceInRequest ==
    ((RequestBuilt \/ Submitted) /\ flags.network # "")
        => /\ flags.network \in DOMAIN req.devices
           /\ req.devices[flags.network] = NicFor(flags.network)
           /\ \A k \in DOMAIN stdinData.devices \ {flags.network} :
                 k \in DOMAIN req.devices /\ req.devices[k] = stdinData.devices[k]

\* C19 amended: the same, except that with a storage-pool flag the key "root"
\* holds the root disk device, also when the network is named "root" or
\* structured input gave a "root" device.
NetworkDeviceUnlessRoot ==
    ((RequestBuilt \/ Submitted) /\ flags.network # "")
        => /\ flags.network \in DOMAIN req.devices
           /\ req.devices[flags.network] =
                 IF flags.storage # "" /\ flags.network = "root"
                 THEN RootDevice(flags.storage)
                 ELSE NicFor(flags.network)
           /\ \A k \in DOMAIN stdinData.devices \ {flags.network} :
                 /\ k \in DOMAIN req.devices
                 /\ req.devices[k] = IF flags.storage # "" /\ k = "root"
                                     THEN RootDevice(flags.storage)
                                     ELSE stdinData.devices[k]
           /\ DOMAIN req.devices =
                 DOMAIN stdinData.devices \cup {flags.network}
                    \cup (IF flags.storage # "" THEN {"root"} ELSE {})

NetworkDeviceUnlessRootWitness ==
    /\ Submitted
    /\ flags.network = "n" /\ seen.netType = "physical"
    /\ "n" \in DOMAIN stdinData.devices /\ "eth1" \in DOMAIN stdinData.devices
    /\ req.devices["n"] = NicDevice("macvlan", "n")
    /\ req.devices["eth1"] = stdinData.devices["eth1"]

\* The image name create resolves: the result of guessImage, "default" if empty.
EffectiveToken == IF guessCall.outImage = <<>> THEN Default ELSE guessCall.outImage

ImageLookups == {"GetImageAlias", "GetImage"}

LookupsBy(by) == {i \in 1..Len(calls) : calls[i].by = by /\ calls[i].fn \in ImageLookups}

\* C14: when the image remote after guessImage is a streaming-catalog remote,
\* create looks up neither alias nor image, and the creation call is made with
\* source alias = token, image fingerprint = token and image public.
StreamingFastPath ==
    ((pc = "submit" \/ Called("CreateInstanceFromImage"))
        /\ Remotes[iremote] = "simplestreams")
        => /\ LookupsBy("create") = {}
           /\ image = EffectiveToken
           /\ req.sourceAlias = image
           /\ imgInfo = [fingerprint |-> image, public |-> TRUE]

StreamingFastPathWitness ==
    /\ Called("CreateInstanceFromImage")
    /\ Remotes[iremote] = "simplestreams"
    /\ guessCall.image = <<"s", "/", "x">>
    /\ req.sourceAlias = <<"x">>

\* C15: for another remote, create looks the token up as alias and then fetches
\* the image: after a successful alias lookup the request has the token as
\* source alias and the fetch uses the alias target; after a failed one the
\* source alias is unset and the fetch uses the token; a failed fetch ends
\* create with no creation call.
AliasThenImage ==
    \A i \in LookupsBy("create") :
        calls[i].fn = "GetImage"
            => /\ i > 1
               /\ calls[i-1] = Call("GetImageAlias", "create", EffectiveToken)
               /\ Remotes[iremote] # "simplestreams"
               /\ IF calls[i-1] \notin failed
                  THEN /\ req.sourceAlias = EffectiveToken
                       /\ calls[i].arg = seen.aliasTarget
                       /\ seen.aliasTarget \in AliasTargets
                  ELSE /\ req.sourceAlias = <<>>
                       /\ calls[i].arg = EffectiveToken
               /\ calls[i] \in failed => (pc = "done" /\ err = "GetImage" /\ ~Submitted)
               /\ Submitted => imgInfo.fingerprint = calls[i].arg

AliasThenImageWitness ==
    /\ Called("CreateInstanceFromImage")
    /\ req.sourceAlias = <<"x">>
    /\ seen.aliasTarget = <<"g">>
    /\ imgInfo.fingerprint = <<"g">>

ImageCalls == {"GetImageAlias", "GetImage", "GetImageServer", "CreateInstanceFromImage"}

\* C16: with --empty and one argument the argument names the instance: no
\* image is resolved, and the request goes to the argument's remote with the
\* empty-instance call, name = the argument's name and source type "none".
EmptyOneArgument ==
    (flags.empty /\ Len(args) = 1)
        => /\ ~guessCall.called
           /\ \A i \in 1..Len(calls) : calls[i].fn \notin ImageCalls
           /\ Called("CreateInstance")
                 => /\ req.name = ParseRemote(args[1]).name
                    /\ req.sourceType = "none"
                    /\ req.sourceAlias = <<>>
                    /\ remote = ParseRemote(args[1]).remote
                    /\ calls[1] = Call("GetInstanceServer", "create", remote)

EmptyOneArgumentWitness ==
    /\ flags.empty /\ args = << <<"r", ":", "x">> >>
    /\ Called("CreateInstance")
    /\ req.name = <<"x">> /\ remote = <<"r">>

\* C17: with an empty image token on a management-protocol remote, no flag
\* and no piped input, the image looked up is "default"; once the alias
\* "default" resolves, the submitted request has source alias "default",
\* empty config, empty devices and unset profiles.
EmptyTokenScenario ==
    /\ ~flags.empty /\ Len(args) = 1
    /\ ~ParseRemote(args[1]).err
    /\ ParseRemote(args[1]).name = <<>>
    /\ Remotes[ParseRemote(args[1]).remote] = "lxd"
    /\ flags.network = "" /\ flags.storage = "" /\ flags.config = <<>>
    /\ flags.profile = <<>> /\ ~flags.noProfiles
    /\ stdin = "terminal"

ValidationNeverFails ==
    /\ Called("GetInstance")
          => /\ pc = "done" /\ err = ""
             /\ retName = name
             /\ calls[Len(calls)] = Call("GetInstance", "checkNetwork", name)
             /\ seen.fetched <=> (calls[Len(calls)] \notin failed)
             /\ advisory <=> (seen.fetched /\ ~HasNic(seen.devices))
    /\ advisory => Called("GetInstance")
    /\ (pc = "done" /\ err = "") => Called("GetInstance")

ValidationNeverFailsWitness ==
    /\ pc = "done" /\ err = ""
    /\ Call("GetInstance", "checkNetwork", name) \in failed
    /\ retName = <<"c">> /\ ~advisory

\* n is the last "/"-separated segment of the path p.
IsLastSegment(n, p) ==
    /\ ~Contains(n, "/")
    /\ \/ p = n
       \/ /\ Len(p) > Len(n)
          /\ SubSeq(p, Len(p) - Len(n) + 1, Len(p)) = n
          /\ p[Len(p) - Len(n)] = "/"

NoContainers == ~opInfo.hasContainers \/ Len(opInfo.containers) = 0

\* C20: create succeeds only with a non-empty "containers" entry in the
\* operation's resources; without one it returns an error after the successful
\* creation call and does not run the network validation; with an empty name
\* and exactly one container the returned name is the last segment of its path.
ResourcesRequired ==
    /\ (pc = "checknet" \/ Called("GetInstance") \/ (pc = "done" /\ err = ""))
          => ~NoContainers
    /\ err = "NoResources"
          => /\ pc = "done" /\ NoContainers
             /\ Submitted /\ calls[Len(calls)] \notin failed
             /\ ~Called("GetInstance") /\ ~advisory
    /\ (pc = "done" /\ err = "")
          => IF req.name = <<>> /\ Len(opInfo.containers) = 1
             THEN IsLastSegment(retName, opInfo.containers[1])
             ELSE retName = req.name

ResourcesRequiredWitness ==
    /\ pc = "done" /\ err = ""
    /\ req.name = <<>>
    /\ opInfo.containers = << <<"/", "i", "/", "c">> >>
    /\ retName = <<"c">>

====
